---- MODULE Spec2Model ----
(***************************************************************************)
(* Model of .github/actions-scripts/ready-for-docs-review.js: the script   *)
(* that files a pull request or issue on the docs-content review board     *)
(* and populates its fields.  run() is one async function; every action    *)
(* below is one continuation of run(), from the return of the awaited      *)
(* boundary call up to the next await (or to the end of the run).          *)
(* Strings that the code splits or joins (paths, the feature string) are   *)
(* sequences of one-character strings; all other strings are atoms.        *)
(***************************************************************************)
EXTENDS Integers, Sequences, FiniteSets, TLC

VARIABLES REPO, AUTHOR_LOGIN, docsTeamMembers, orgMembers,
          pc, data, ids, newItemID, feature, sizeType, contributorData,
          firstTimeContributor, updateProjectV2ItemMutation, contributorType,
          sent, issued, inflight, failed, boardItems, boardFields,
          console, exitCode

vars == <<REPO, AUTHOR_LOGIN, docsTeamMembers, orgMembers,
          pc, data, ids, newItemID, feature, sizeType, contributorData,
          firstTimeContributor, updateProjectV2ItemMutation, contributorType,
          sent, issued, inflight, failed, boardItems, boardFields,
          console, exitCode>>

----------------------------------------------------------------------------
(* Bounds of the model *)

\* longest changed-file list of a pull request
MaxFiles == 10
\* longest freely chosen head of a changed-file list
MaxHead == 2
\* largest totalCount of one contribution entry
MaxCount == 2

----------------------------------------------------------------------------
(* Values *)

\* JavaScript's undefined, and the marker of a thrown error
Undefined == <<"undefined">>
Throw == <<"throw">>

OS_REPO == "github/docs"
OTHER_REPO == "github/docs-internal"
FIRST_TIME == "first time contributor"
ITEM_NODE_ID == <<"node", "item">>
PROJECT_ID == <<"project", "docs-content">>

\* character strings
content == <<"c","o","n","t","e","n","t">>
actions == <<"a","c","t","i","o","n","s">>
rest == <<"r","e","s","t">>
slash == <<"/">>
comma == <<",">>
a_md == <<"a",".","m","d">>
b_md == <<"b",".","m","d">>
PathActionsA == content \o slash \o actions \o slash \o a_md
PathActionsB == content \o slash \o actions \o slash \o b_md
PathRestA == content \o slash \o rest \o slash \o a_md
PathDataX == <<"d","a","t","a","/","x",".","y","m","l">>
PathReadme == <<"R","E","A","D","M","E",".","m","d">>

Range(s) == {s[i] : i \in 1..Len(s)}

----------------------------------------------------------------------------
(* String and collection primitives of JavaScript used by run() *)

\* String.prototype.split(sep) for a one-character separator
RECURSIVE split(_, _)
split(str, sep) ==
  IF \A i \in 1..Len(str) : str[i] # sep
    THEN <<str>>
    ELSE LET i == CHOOSE k \in 1..Len(str) :
                    str[k] = sep /\ \A j \in 1..(k-1) : str[j] # sep
         IN <<SubSeq(str, 1, i-1)>> \o split(SubSeq(str, i+1, Len(str)), sep)

\* arr[i], zero-based; undefined past the end
Index(arr, i) == IF i + 1 <= Len(arr) THEN arr[i+1] ELSE Undefined

\* Set.prototype.add: a Set keeps insertion order and no duplicates
SetAdd(set, x) == IF x \in Range(set) THEN set ELSE Append(set, x)

\* Array.prototype.join(): comma separated, undefined rendered as ''
RECURSIVE join(_)
join(arr) ==
  IF Len(arr) = 0 THEN <<>>
  ELSE LET h == IF arr[1] = Undefined THEN <<>> ELSE arr[1]
       IN IF Len(arr) = 1 THEN h ELSE h \o comma \o join(Tail(arr))

\* Array.prototype.filter
RECURSIVE filter(_, _)
filter(arr, name) ==
  IF Len(arr) = 0 THEN <<>>
  ELSE IF arr[1].nameWithOwner = name
         THEN <<arr[1]>> \o filter(Tail(arr), name)
         ELSE filter(Tail(arr), name)

----------------------------------------------------------------------------
(* Board metadata and the lookups of projects.js *)

FieldNames == {"Date posted", "Review due date", "Status", "Feature",
               "Contributor type", "Size", "Contributor"}
SelectOptions == {<<"Status", "Ready for review">>,
                  <<"Contributor type", "Hubber or partner">>,
                  <<"Contributor type", "Docs team">>,
                  <<"Contributor type", "OS contributor">>,
                  <<"Size", "XS">>, <<"Size", "S">>,
                  <<"Size", "M">>, <<"Size", "L">>}

FieldID(name) == <<"field", name>>
OptionID(fieldName, optionName) == <<"option", fieldName, optionName>>

\* findFieldID(fieldName, data): the id of the field called fieldName;
\* throws when the fetched metadata has no such field
findFieldID(fieldName, d) ==
  IF fieldName \in d.fields THEN FieldID(fieldName) ELSE Throw

\* findSingleSelectID(singleSelectName, fieldName, data): locates the field,
\* then the option; throws when either is absent
findSingleSelectID(singleSelectName, fieldName, d) ==
  IF fieldName \notin d.fields THEN Throw
  ELSE IF <<fieldName, singleSelectName>> \in d.options
         THEN OptionID(fieldName, singleSelectName)
         ELSE Throw

\* the constants of run() that hold identifiers
IdVars == {"datePostedID", "reviewDueDateID", "statusID", "featureID",
           "contributorTypeID", "sizeTypeID", "authorID",
           "readyForReviewID", "hubberTypeID", "docsMemberTypeID",
           "osContributorTypeID", "sizeXS", "sizeS", "sizeM", "sizeL"}

\* FieldLookups without the lookup of 'Contributor'
FieldLookupsMut == << <<"datePostedID", "Date posted">>,
                      <<"reviewDueDateID", "Review due date">>,
                      <<"statusID", "Status">>,
                      <<"featureID", "Feature">>,
                      <<"contributorTypeID", "Contributor type">>,
                      <<"sizeTypeID", "Size">> >>

\* const <variable> = findFieldID('<name>', data)
FieldLookups == << <<"datePostedID", "Date posted">>,
                   <<"reviewDueDateID", "Review due date">>,
                   <<"statusID", "Status">>,
                   <<"featureID", "Feature">>,
                   <<"contributorTypeID", "Contributor type">>,
                   <<"sizeTypeID", "Size">>,
                   <<"authorID", "Contributor">> >>

\* OptionLookups without the lookup of 'L'
OptionLookupsMut == << <<"readyForReviewID", "Ready for review", "Status">>,
                       <<"hubberTypeID", "Hubber or partner", "Contributor type">>,
                       <<"docsMemberTypeID", "Docs team", "Contributor type">>,
                       <<"osContributorTypeID", "OS contributor", "Contributor type">>,
                       <<"sizeXS", "XS", "Size">>,
                       <<"sizeS", "S", "Size">>,
                       <<"sizeM", "M", "Size">> >>

\* const <variable> = findSingleSelectID('<option>', '<field>', data)
OptionLookups == << <<"readyForReviewID", "Ready for review", "Status">>,
                    <<"hubberTypeID", "Hubber or partner", "Contributor type">>,
                    <<"docsMemberTypeID", "Docs team", "Contributor type">>,
                    <<"osContributorTypeID", "OS contributor", "Contributor type">>,
                    <<"sizeXS", "XS", "Size">>,
                    <<"sizeS", "S", "Size">>,
                    <<"sizeM", "M", "Size">>,
                    <<"sizeL", "L", "Size">> >>

\* the value every identifier constant gets from its lookup; a constant
\* without a lookup stays undefined
LookupResults(d) ==
  [v \in IdVars |->
     IF \E i \in 1..Len(FieldLookups) : FieldLookups[i][1] = v
       THEN LET l == FieldLookups[CHOOSE i \in 1..Len(FieldLookups) :
                                     FieldLookups[i][1] = v]
            IN findFieldID(l[2], d)
     ELSE IF \E i \in 1..Len(OptionLookups) : OptionLookups[i][1] = v
       THEN LET l == OptionLookups[CHOOSE i \in 1..Len(OptionLookups) :
                                      OptionLookups[i][1] = v]
            IN findSingleSelectID(l[2], l[3], d)
     ELSE Undefined]

\* one of the fifteen lookups throws
LookupThrows(d) == \E v \in IdVars : LookupResults(d)[v] = Throw

----------------------------------------------------------------------------
(* Derivation of size and feature from the changed files *)

\* IsContentPath without the test of the first segment
IsContentPathMut(pathComponents) == TRUE

\* if (pathComponents[0] === 'content')
IsContentPath(pathComponents) == Index(pathComponents, 0) = content

\* the callback of data.item.files.nodes.forEach
VisitFile(acc, node) ==
  LET pathComponents == split(node.path, "/")
  IN [numFiles |-> acc.numFiles + 1,
      numChanges |-> acc.numChanges + node.additions + node.deletions,
      features |-> IF IsContentPath(pathComponents)
                     THEN SetAdd(acc.features, Index(pathComponents, 1))
                     ELSE acc.features]

RECURSIVE forEachFile(_, _)
forEachFile(nodes, acc) ==
  IF Len(nodes) = 0 THEN acc
  ELSE forEachFile(Tail(nodes), VisitFile(acc, nodes[1]))

\* SizeOf with numChanges <= 250 as the bound of M
SizeOfMut(numFiles, numChanges, i) ==
  IF numFiles < 5 /\ numChanges < 10 THEN i["sizeXS"]
  ELSE IF numFiles < 10 /\ numChanges < 50 THEN i["sizeS"]
  ELSE IF numFiles < 10 /\ numChanges <= 250 THEN i["sizeM"]
  ELSE i["sizeL"]

\* the if / else-if chain that determines the size
SizeOf(numFiles, numChanges, i) ==
  IF numFiles < 5 /\ numChanges < 10 THEN i["sizeXS"]
  ELSE IF numFiles < 10 /\ numChanges < 50 THEN i["sizeS"]
  ELSE IF numFiles < 10 /\ numChanges < 250 THEN i["sizeM"]
  ELSE i["sizeL"]

\* DefaultSize initialised to M
DefaultSizeMut(i) == i["sizeM"]

\* let sizeType = sizeS: the value kept when the item is an issue
DefaultSize(i) == i["sizeS"]

\* feature and sizeType after the block "If the item is a PR, ..."
Derive(item, i) ==
  IF item.typename = "PullRequest"
    THEN LET acc == forEachFile(item.files,
                       [numFiles |-> 0, numChanges |-> 0, features |-> <<>>])
         IN [feature |-> join(acc.features),
             sizeType |-> SizeOf(acc.numFiles, acc.numChanges, i)]
    ELSE [feature |-> <<>>, sizeType |-> DefaultSize(i)]

----------------------------------------------------------------------------
(* First-time contributor and contributor type *)

\* filter(...)[0], then "x ? x.contributions.totalCount : 0"
ContributionCount(collection) ==
  LET docsData == filter(collection, OS_REPO)
  IN IF Len(docsData) > 0 THEN docsData[1].totalCount ELSE 0

\* IsFirstTime with < in place of <=
IsFirstTimeMut(prCount, issueCount) == prCount + issueCount < 1

\* if (prCount + issueCount <= 1) firstTimeContributor = true
IsFirstTime(prCount, issueCount) == prCount + issueCount <= 1

FirstTimeContributor(cd) ==
  IsFirstTime(ContributionCount(cd.pullRequest), ContributionCount(cd.issue))

\* const turnaround = process.env.REPO === 'github/docs' ? 3 : 2
Turnaround(repo) == IF repo = OS_REPO THEN 3 ELSE 2

\* generateUpdateProjectV2ItemFieldMutation({ item, author, turnaround, feature })
generateUpdateProjectV2ItemFieldMutation(item, author, turnaround, feat) ==
  [item |-> item, author |-> author, turnaround |-> turnaround, feature |-> feat]

\* the mutation run() generates
GenerateMutation(item, ftc, login, repo, feat) ==
  generateUpdateProjectV2ItemFieldMutation(
    item, IF ftc THEN FIRST_TIME ELSE login, Turnaround(repo), feat)

\* ContributorTypeOf without the test of the repository
ContributorTypeOfMut(isDocs, isOrg, repo, i) ==
  IF isDocs THEN i["docsMemberTypeID"]
  ELSE IF isOrg THEN i["hubberTypeID"]
  ELSE i["osContributorTypeID"]

\* the if / else-if chain that chooses the contributor type
ContributorTypeOf(isDocs, isOrg, repo, i) ==
  IF isDocs THEN i["docsMemberTypeID"]
  ELSE IF isOrg THEN i["hubberTypeID"]
  ELSE IF repo = OS_REPO THEN i["osContributorTypeID"]
  ELSE i["hubberTypeID"]

\* the variables of the update-fields request
UpdateVariables(i, ctype, stype) ==
  [project |-> PROJECT_ID,
   statusID |-> i["statusID"], statusValueID |-> i["readyForReviewID"],
   datePostedID |-> i["datePostedID"], reviewDueDateID |-> i["reviewDueDateID"],
   contributorTypeID |-> i["contributorTypeID"], contributorType |-> ctype,
   sizeTypeID |-> i["sizeTypeID"], sizeType |-> stype,
   featureID |-> i["featureID"], authorID |-> i["authorID"]]

----------------------------------------------------------------------------
(* What the API can answer *)

\* longest changed-file list in the runs that vary everything else
MaxFew == 1

CompleteBoard == [fields |-> FieldNames, options |-> SelectOptions]
WithoutField(f) == [fields |-> FieldNames \ {f},
                    options |-> {o \in SelectOptions : o[1] # f}]
WithoutOption(o) == [fields |-> FieldNames, options |-> SelectOptions \ {o}]
Boards == {CompleteBoard} \cup {WithoutField(f) : f \in FieldNames}
                          \cup {WithoutOption(o) : o \in SelectOptions}

FileNode(a, d, p) == [additions |-> a, deletions |-> d, path |-> p]
Filler == FileNode(0, 0, PathDataX)
Nodes == {FileNode(5, 4, PathActionsA), FileNode(5, 5, PathActionsB),
          FileNode(40, 0, PathRestA), FileNode(40, 200, PathReadme), Filler}

Repeat(x, k) == [i \in 1..k |-> x]
Heads(n) == UNION {[1..k -> Nodes] : k \in 0..n}
\* a freely chosen head followed by unchanged data files
FileLists(maxHead, maxFiles) ==
  {l \in {h \o Repeat(Filler, k) : h \in Heads(maxHead), k \in 0..maxFiles} :
     Len(l) <= maxFiles}

\* an issue has no files key; run() never reads it for an issue
NoFiles == <<>>
IssueItem == [typename |-> "Issue", files |-> NoFiles]
PullRequestItem(files) == [typename |-> "PullRequest", files |-> files]
Items(maxHead, maxFiles) ==
  {IssueItem} \cup {PullRequestItem(f) : f \in FileLists(maxHead, maxFiles)}

Entry(repo, n) == [nameWithOwner |-> repo, totalCount |-> n]
\* ...ContributionsByRepository: at most one entry per repository
Collections(maxCount) ==
  {<<>>} \cup {<<Entry(OS_REPO, n)>> : n \in 1..maxCount}
         \cup {<<Entry(OTHER_REPO, n)>> : n \in 1..maxCount}
         \cup {<<Entry(OTHER_REPO, 1), Entry(OS_REPO, n)>> : n \in 1..maxCount}
         \cup {<<Entry(OS_REPO, n), Entry(OTHER_REPO, 1)>> : n \in 1..maxCount}

Calls == {"metadata", "addItem", "contributions", "isDocsTeamMember",
          "isGitHubOrgMember", "update"}

NoData == [fields |-> {}, options |-> {},
           item |-> [typename |-> "", files |-> NoFiles],
           projectID |-> Undefined]
NoContributorData == [pullRequest |-> <<>>, issue |-> <<>>]
NoMutation == [item |-> Undefined, author |-> "", turnaround |-> 0,
               feature |-> <<>>]
NoVariables == [project |-> Undefined,
   statusID |-> Undefined, statusValueID |-> Undefined,
   datePostedID |-> Undefined, reviewDueDateID |-> Undefined,
   contributorTypeID |-> Undefined, contributorType |-> Undefined,
   sizeTypeID |-> Undefined, sizeType |-> Undefined,
   featureID |-> Undefined, authorID |-> Undefined]

----------------------------------------------------------------------------
(* The run *)

Init ==
  /\ REPO \in {OS_REPO, OTHER_REPO}
  /\ AUTHOR_LOGIN = "octocat"
  /\ docsTeamMembers \in SUBSET {"octocat"}
  /\ orgMembers \in SUBSET {"octocat"}
  /\ pc = "start"
  /\ data = NoData
  /\ ids = [v \in IdVars |-> Undefined]
  /\ newItemID = Undefined
  /\ feature = <<>>
  /\ sizeType = Undefined
  /\ contributorData = NoContributorData
  /\ firstTimeContributor = FALSE
  /\ updateProjectV2ItemMutation = NoMutation
  /\ contributorType = Undefined
  /\ sent = NoVariables
  /\ issued = <<>>
  /\ inflight = {}
  /\ failed = {}
  /\ boardItems = {}
  /\ boardFields = {}
  /\ console = <<>>
  /\ exitCode = -1

world == <<REPO, AUTHOR_LOGIN, docsTeamMembers, orgMembers>>

\* process.exit(1)
ExitOnError == 1

\* catchLog that prints nothing
catchLogMut(lines) == lines

\* console.log(`#ERROR# ${error}`)
catchLog(lines) == Append(lines, "#ERROR#")

\* Catch without process.exit(1): the process ends with status 0
CatchMut ==
  /\ console' = catchLog(console)
  /\ exitCode' = 0
  /\ pc' = "exited"

\* run().catch(...): the rejection of run() reaches the top level
Catch ==
  /\ console' = catchLog(console)
  /\ exitCode' = ExitOnError
  /\ pc' = "exited"

\* await <call>: run() is suspended on the call it has just issued
Issue(returned, call) ==
  /\ issued' = Append(issued, call)
  /\ inflight' = (inflight \ {returned}) \cup {call}
  /\ pc' = call

\* QueriesContributions with the comparison inverted
QueriesContributionsMut(repo) == repo # OS_REPO

\* if (process.env.REPO === 'github/docs') { ...contribution query... }
QueriesContributions(repo) == repo = OS_REPO

\* run() starts: the metadata query is issued
Start ==
  /\ pc = "start"
  /\ Issue("start", "metadata")
  /\ UNCHANGED <<world, data, ids, newItemID, feature, sizeType,
                 contributorData, firstTimeContributor,
                 updateProjectV2ItemMutation, contributorType, sent, failed,
                 boardItems, boardFields, console, exitCode>>

\* the metadata query returns; the fifteen lookups; addItemToProject issued
MetadataReturns(boards, items) ==
  /\ pc = "metadata"
  /\ \E b \in boards, it \in items :
       LET d == [fields |-> b.fields, options |-> b.options, item |-> it,
                 projectID |-> PROJECT_ID]
       IN /\ data' = d
          /\ IF LookupThrows(d)
               THEN /\ Catch
                    /\ inflight' = inflight \ {"metadata"}
                    /\ UNCHANGED <<ids, issued>>
               ELSE /\ ids' = LookupResults(d)
                    /\ Issue("metadata", "addItem")
                    /\ UNCHANGED <<console, exitCode>>
  /\ UNCHANGED <<world, newItemID, feature, sizeType, contributorData,
                 firstTimeContributor, updateProjectV2ItemMutation,
                 contributorType, sent, failed, boardItems, boardFields>>

\* addItemToProject returns the new item id; size and feature are derived;
\* then the contribution query (github/docs) or the mutation is generated
\* and isDocsTeamMember is issued
AddItemReturns ==
  /\ pc = "addItem"
  /\ boardItems' = boardItems \cup {ITEM_NODE_ID}
  /\ newItemID' = <<"projectItem", ITEM_NODE_ID>>
  /\ feature' = Derive(data.item, ids).feature
  /\ sizeType' = Derive(data.item, ids).sizeType
  /\ IF QueriesContributions(REPO)
       THEN /\ Issue("addItem", "contributions")
            /\ UNCHANGED <<firstTimeContributor, updateProjectV2ItemMutation>>
       ELSE /\ firstTimeContributor' = FALSE
            /\ updateProjectV2ItemMutation' =
                 GenerateMutation(newItemID', FALSE, AUTHOR_LOGIN, REPO, feature')
            /\ Issue("addItem", "isDocsTeamMember")
  /\ UNCHANGED <<world, data, ids, contributorData, contributorType, sent,
                 failed, boardFields, console, exitCode>>

\* the contribution query returns; first-time contributor is decided, the
\* mutation is generated and isDocsTeamMember is issued
ContributionsReturn(collections) ==
  /\ pc = "contributions"
  /\ \E prs \in collections, iss \in collections :
       LET cd == [pullRequest |-> prs, issue |-> iss]
       IN /\ contributorData' = cd
          /\ firstTimeContributor' = FirstTimeContributor(cd)
          /\ updateProjectV2ItemMutation' =
               GenerateMutation(newItemID, FirstTimeContributor(cd),
                                AUTHOR_LOGIN, REPO, feature)
  /\ Issue("contributions", "isDocsTeamMember")
  /\ UNCHANGED <<world, data, ids, newItemID, feature, sizeType,
                 contributorType, sent, failed, boardItems, boardFields,
                 console, exitCode>>

\* console.log(`Populating fields for item: ...`); await graphql(update...)
SendUpdate(returned, ctype) ==
  /\ contributorType' = ctype
  /\ console' = Append(console, "Populating fields for item")
  /\ sent' = UpdateVariables(ids, ctype, sizeType)
  /\ Issue(returned, "update")

\* isDocsTeamMember returns: a member gets the docs-team type and the update
\* is sent, otherwise isGitHubOrgMember is issued
DocsTeamReturns ==
  /\ pc = "isDocsTeamMember"
  /\ IF AUTHOR_LOGIN \in docsTeamMembers
       THEN SendUpdate("isDocsTeamMember",
                       ContributorTypeOf(TRUE, FALSE, REPO, ids))
       ELSE /\ Issue("isDocsTeamMember", "isGitHubOrgMember")
            /\ UNCHANGED <<contributorType, console, sent>>
  /\ UNCHANGED <<world, data, ids, newItemID, feature, sizeType,
                 contributorData, firstTimeContributor,
                 updateProjectV2ItemMutation, failed, boardItems, boardFields,
                 exitCode>>

\* isGitHubOrgMember returns: the contributor type is chosen, the update sent
OrgMemberReturns ==
  /\ pc = "isGitHubOrgMember"
  /\ SendUpdate("isGitHubOrgMember",
                ContributorTypeOf(FALSE, AUTHOR_LOGIN \in orgMembers, REPO, ids))
  /\ UNCHANGED <<world, data, ids, newItemID, feature, sizeType,
                 contributorData, firstTimeContributor,
                 updateProjectV2ItemMutation, failed, boardItems, boardFields,
                 exitCode>>

\* the update-fields mutation returns; run() returns newItemID
UpdateReturns ==
  /\ pc = "update"
  /\ boardFields' = {[variables |-> sent,
                      mutation |-> updateProjectV2ItemMutation]}
  /\ console' = Append(console, "Done populating fields for item")
  /\ exitCode' = 0
  /\ pc' = "exited"
  /\ inflight' = inflight \ {"update"}
  /\ UNCHANGED <<world, data, ids, newItemID, feature, sizeType,
                 contributorData, firstTimeContributor,
                 updateProjectV2ItemMutation, contributorType, sent, issued,
                 failed, boardItems>>

\* the awaited boundary call fails: the error leaves run() and is caught
CallFails ==
  /\ pc \in Calls
  /\ \E c \in inflight :
       /\ failed' = failed \cup {c}
       /\ inflight' = inflight \ {c}
  /\ Catch
  /\ UNCHANGED <<world, data, ids, newItemID, feature, sizeType,
                 contributorData, firstTimeContributor,
                 updateProjectV2ItemMutation, contributorType, sent, issued,
                 boardItems, boardFields>>

\* every board, few files, every contribution history
Next ==
  \/ Start
  \/ MetadataReturns(Boards, Items(MaxFew, MaxFew))
  \/ AddItemReturns
  \/ ContributionsReturn(Collections(MaxCount))
  \/ DocsTeamReturns
  \/ OrgMemberReturns
  \/ UpdateReturns
  \/ CallFails

Spec == Init /\ [][Next]_vars

\* every changed-file list, the complete board, two contribution histories
NextFiles ==
  \/ Start
  \/ MetadataReturns({CompleteBoard}, Items(MaxHead, MaxFiles))
  \/ AddItemReturns
  \/ ContributionsReturn({<<>>, <<Entry(OS_REPO, MaxCount)>>})
  \/ DocsTeamReturns
  \/ OrgMemberReturns
  \/ UpdateReturns
  \/ CallFails

SpecFiles == Init /\ [][NextFiles]_vars

\* every board, one issue and one pull request, two contribution histories
NextCalls ==
  \/ Start
  \/ MetadataReturns(Boards, {IssueItem, PullRequestItem(Repeat(Filler, MaxFew))})
  \/ AddItemReturns
  \/ ContributionsReturn({<<>>, <<Entry(OS_REPO, MaxCount)>>})
  \/ DocsTeamReturns
  \/ OrgMemberReturns
  \/ UpdateReturns
  \/ CallFails

\* every issued call is eventually answered or fails
FairSpec == Init /\ [][NextCalls]_vars /\ WF_vars(NextCalls)

TypeOK == pc \in Calls \cup {"start", "exited"}

----------------------------------------------------------------------------
(* Vocabulary of the properties *)

UpdateIssued == "update" \in Range(issued)
MutationGenerated == updateProjectV2ItemMutation # NoMutation
IsPullRequest == data.item.typename = "PullRequest"
IsIssue == data.item.typename = "Issue"
Exited == pc = "exited"
ItemOnBoard == ITEM_NODE_ID \in boardItems
FieldsUnset == boardFields = {}
Size(name) == OptionID("Size", name)
ContributorTypeOption(name) == OptionID("Contributor type", name)

RECURSIVE SumChanges(_)
SumChanges(files) ==
  IF Len(files) = 0 THEN 0
  ELSE files[1].additions + files[1].deletions + SumChanges(Tail(files))

\* the n-th '/'-separated segment of a path, n >= 1
Segment(path, n) == split(path, "/")[n]
HasSegment(path, n) == Len(split(path, "/")) >= n

\* the second segments of the paths whose first segment is 'content'
ContentFeatures(files) ==
  {Segment(files[k].path, 2) :
     k \in {j \in 1..Len(files) : /\ Segment(files[j].path, 1) = content
                                  /\ HasSegment(files[j].path, 2)}}

\* the enumerations of a finite set, each member once
Orderings(S) ==
  {q \in [1..Cardinality(S) -> S] : \A x \in S : \E k \in 1..Cardinality(S) : q[k] = x}

Paths(files) == [k \in 1..Len(files) |-> files[k].path]

\* the totalCount a collection attributes to github/docs, 0 without an entry
DocsCount(collection) ==
  IF \E k \in 1..Len(collection) : collection[k].nameWithOwner = OS_REPO
    THEN collection[CHOOSE k \in 1..Len(collection) :
                      collection[k].nameWithOwner = OS_REPO].totalCount
    ELSE 0

MetadataFetched == data.projectID # Undefined
MissingName ==
  /\ MetadataFetched
  /\ \/ ~ (FieldNames \subseteq data.fields)
     \/ ~ (SelectOptions \subseteq data.options)

IsIdentifier(x) ==
  \/ x \in {FieldID(f) : f \in FieldNames}
  \/ x \in {OptionID(o[1], o[2]) : o \in SelectOptions}

----------------------------------------------------------------------------
(* C1 *)

\* C1: for a pull request the Size option sent in the update-fields
\* mutation is XS iff numFiles < 5 and numChanges < 10; else S iff
\* numFiles < 10 and numChanges < 50; else M iff numFiles < 10 and
\* numChanges < 250; else L.  Ten or more files always give L, and
\* (4,9) -> XS, (4,10) -> S, (9,49) -> S, (9,249) -> M, (10,0) -> L.
C1_SizeByThresholds ==
  (UpdateIssued /\ IsPullRequest) =>
    LET nf == Len(data.item.files)
        nc == SumChanges(data.item.files)
        xs == nf < 5 /\ nc < 10
        sm == ~xs /\ nf < 10 /\ nc < 50
        md == ~xs /\ ~sm /\ nf < 10 /\ nc < 250
    IN /\ sent.sizeType \in {Size("XS"), Size("S"), Size("M"), Size("L")}
       /\ (sent.sizeType = Size("XS")) <=> xs
       /\ (sent.sizeType = Size("S")) <=> sm
       /\ (sent.sizeType = Size("M")) <=> md
       /\ (sent.sizeType = Size("L")) <=> (~xs /\ ~sm /\ ~md)
       /\ nf >= 10 => sent.sizeType = Size("L")
       /\ (nf = 4 /\ nc = 9) => sent.sizeType = Size("XS")
       /\ (nf = 4 /\ nc = 10) => sent.sizeType = Size("S")
       /\ (nf = 9 /\ nc = 49) => sent.sizeType = Size("S")
       /\ (nf = 9 /\ nc = 249) => sent.sizeType = Size("M")
       /\ (nf = 10 /\ nc = 0) => sent.sizeType = Size("L")

\* a pull request of 9 files and 249 changes was sent as M
C1_Witness ==
  /\ UpdateIssued /\ IsPullRequest
  /\ Len(data.item.files) = 9
  /\ SumChanges(data.item.files) = 249
  /\ sent.sizeType = Size("M")

----------------------------------------------------------------------------
(* C2 *)

\* C2: the Contributor type sent is 'Docs team' for a docs-team member;
\* else 'Hubber or partner' for an org member; else 'OS contributor' in
\* github/docs; else 'Hubber or partner'.  It is never left without a value.
C2_ContributorTypePrecedence ==
  UpdateIssued =>
    LET isDocs == AUTHOR_LOGIN \in docsTeamMembers
        isOrg == AUTHOR_LOGIN \in orgMembers
    IN /\ isDocs => sent.contributorType = ContributorTypeOption("Docs team")
       /\ (~isDocs /\ isOrg) =>
            sent.contributorType = ContributorTypeOption("Hubber or partner")
       /\ (~isDocs /\ ~isOrg /\ REPO = OS_REPO) =>
            sent.contributorType = ContributorTypeOption("OS contributor")
       /\ (~isDocs /\ ~isOrg /\ REPO # OS_REPO) =>
            sent.contributorType = ContributorTypeOption("Hubber or partner")
       /\ sent.contributorType # Undefined

\* an author in both directories was sent as 'Docs team'
C2_Witness ==
  /\ UpdateIssued
  /\ AUTHOR_LOGIN \in docsTeamMembers /\ AUTHOR_LOGIN \in orgMembers
  /\ sent.contributorType = ContributorTypeOption("Docs team")

----------------------------------------------------------------------------
(* C3 *)

\* C3: the author label of the generated mutation is 'first time
\* contributor' iff REPO is github/docs and the pull-request and issue
\* contribution counts attributed to github/docs sum to at most 1 (no entry
\* counts 0); otherwise it is the author login.  For another repository the
\* contribution query is never issued.
C3_FirstTimeLabel ==
  /\ MutationGenerated =>
       LET first == /\ REPO = OS_REPO
                    /\ DocsCount(contributorData.pullRequest)
                         + DocsCount(contributorData.issue) <= 1
       IN /\ first => updateProjectV2ItemMutation.author = FIRST_TIME
          /\ ~first => updateProjectV2ItemMutation.author = AUTHOR_LOGIN
          /\ (updateProjectV2ItemMutation.author = FIRST_TIME) <=> first
  /\ REPO # OS_REPO => "contributions" \notin Range(issued)

\* one earlier contribution to github/docs, amid others: first-time label
C3_Witness ==
  /\ MutationGenerated
  /\ REPO = OS_REPO
  /\ DocsCount(contributorData.pullRequest) = 0
  /\ DocsCount(contributorData.issue) = 1
  /\ Len(contributorData.pullRequest) = 1
  /\ updateProjectV2ItemMutation.author = FIRST_TIME

----------------------------------------------------------------------------
(* C4 *)

\* C4: for a pull request the feature string is the comma-joined set of the
\* second segments of the paths under 'content'; other paths add nothing and
\* a repeated feature is there once.  content/actions/a.md,
\* content/actions/b.md, data/x.yml give 'actions'; no content path gives ''.
C4_FeatureFromContentPaths ==
  (MutationGenerated /\ IsPullRequest) =>
    LET files == data.item.files
        S == ContentFeatures(files)
    IN /\ updateProjectV2ItemMutation.feature \in {join(q) : q \in Orderings(S)}
       /\ Paths(files) = <<PathActionsA, PathActionsB, PathDataX>> =>
            updateProjectV2ItemMutation.feature = actions
       /\ S = {} => updateProjectV2ItemMutation.feature = <<>>

\* the three-file example produced 'actions'
C4_Witness ==
  /\ MutationGenerated /\ IsPullRequest
  /\ Paths(data.item.files) = <<PathActionsA, PathActionsB, PathDataX>>
  /\ updateProjectV2ItemMutation.feature = actions

----------------------------------------------------------------------------
(* C5 *)

\* C5: for an issue the update-fields mutation carries Size = S and the
\* empty feature string, whatever the repository, memberships and
\* contribution counts.
C5_IssueDefaults ==
  (IsIssue /\ UpdateIssued) =>
    /\ sent.sizeType = Size("S")
    /\ updateProjectV2ItemMutation.feature = <<>>

\* an issue of a first-time outside contributor was sent with S and ''
C5_Witness ==
  /\ IsIssue /\ UpdateIssued
  /\ REPO = OS_REPO
  /\ firstTimeContributor
  /\ sent.sizeType = Size("S")
  /\ updateProjectV2ItemMutation.feature = <<>>

----------------------------------------------------------------------------
(* C6 *)

SentIdentifiers ==
  {sent.statusID, sent.statusValueID, sent.datePostedID, sent.reviewDueDateID,
   sent.contributorTypeID, sent.contributorType, sent.sizeTypeID,
   sent.sizeType, sent.featureID, sent.authorID}

\* C6: when a required field or option name is absent from the fetched
\* metadata the run fails with a non-zero exit, and the update-fields
\* mutation is never sent with an undefined field or option identifier.
C6_MissingNameFails ==
  /\ MissingName => (Exited /\ exitCode # 0 /\ exitCode # -1)
  /\ UpdateIssued => \A x \in SentIdentifiers : IsIdentifier(x)

\* the board lacks the option L of Size and the run has failed
C6_Witness ==
  /\ MetadataFetched
  /\ <<"Size", "L">> \notin data.options
  /\ "Size" \in data.fields
  /\ Exited /\ exitCode = 1

----------------------------------------------------------------------------
(* C7 *)

Last(q) == q[Len(q)]
IsPrefix(p, q) == Len(p) <= Len(q) /\ SubSeq(q, 1, Len(p)) = p
Returned(call) == call \in Range(issued) /\ call \notin inflight
                    /\ call \notin failed

\* C7 as stated: add-item is issued only after the derivation (contribution
\* query when issued, membership lookups) has completed; update-fields only
\* after add-item has returned its id; never two calls in flight.
C7_Original ==
  /\ "addItem" \in Range(issued) =>
       /\ REPO = OS_REPO => Returned("contributions")
       /\ Returned("isDocsTeamMember")
       /\ AUTHOR_LOGIN \notin docsTeamMembers => Returned("isGitHubOrgMember")
  /\ UpdateIssued => (Returned("addItem") /\ newItemID # Undefined)
  /\ Cardinality(inflight) <= 1

\* the calls of a complete run, in the order run() issues them
CallOrder ==
  <<"metadata", "addItem">>
    \o (IF REPO = OS_REPO THEN <<"contributions">> ELSE <<>>)
    \o <<"isDocsTeamMember">>
    \o (IF AUTHOR_LOGIN \in docsTeamMembers THEN <<>> ELSE <<"isGitHubOrgMember">>)
    \o <<"update">>

\* C7 amended: the calls are issued one at a time in the order metadata
\* query, add-item, contribution query (github/docs only), docs-team
\* lookup, org-member lookup (non-members of the docs team only),
\* update-fields; each is issued only after the one before it has returned,
\* so add-item precedes the contribution query and the membership lookups,
\* and update-fields follows all of them and carries the id add-item returned.
C7_SequentialCalls ==
  /\ IsPrefix(issued, CallOrder)
  /\ Cardinality(inflight) <= 1
  /\ \A c \in inflight : Len(issued) > 0 /\ c = Last(issued)
  /\ \A k \in 1..(Len(issued) - 1) : issued[k] \notin inflight \cup failed
  /\ UpdateIssued =>
       /\ Returned("addItem") /\ newItemID # Undefined
       /\ updateProjectV2ItemMutation.item = newItemID
  /\ sizeType # Undefined => Returned("addItem")

\* update-fields was issued after all five earlier calls
C7_Witness ==
  /\ UpdateIssued
  /\ Len(issued) = 6
  /\ inflight = {"update"}

----------------------------------------------------------------------------
(* C8 *)

Count(q, x) == Cardinality({k \in 1..Len(q) : q[k] = x})
NoCallInFlight == inflight = {}

\* C8 as stated: no call is issued twice; once a call fails no further call
\* is issued and the run ends with one '#ERROR#' line and a non-zero status;
\* if no call fails the run ends with status zero after update-fields.
C8_Original ==
  /\ \A c \in Calls : Count(issued, c) <= 1
  /\ failed # {} =>
       /\ Exited /\ NoCallInFlight
       /\ failed = {Last(issued)}
       /\ Count(console, "#ERROR#") = 1 /\ exitCode \notin {0, -1}
  /\ (Exited /\ failed = {}) => (exitCode = 0 /\ Returned("update"))
  /\ Exited <=> exitCode # -1

\* the safety part of C8 amended
C8_Safety ==
  /\ \A c \in Calls : Count(issued, c) <= 1
  /\ failed # {} =>
       /\ Exited /\ NoCallInFlight
       /\ failed = {Last(issued)}
       /\ Count(console, "#ERROR#") = 1 /\ exitCode \notin {0, -1}
  /\ (Exited /\ failed = {} /\ ~MissingName) =>
       (exitCode = 0 /\ Returned("update") /\ Count(console, "#ERROR#") = 0)
  /\ (Exited /\ failed = {} /\ MissingName) =>
       (Count(console, "#ERROR#") = 1 /\ exitCode \notin {0, -1}
          /\ issued = <<"metadata">>)
  /\ Exited <=> exitCode # -1
  /\ exitCode \in {-1, 0, 1}

\* C8 amended: no call is issued twice; once a call fails no further call is
\* issued and the run ends with one '#ERROR#' line and a non-zero status; if
\* no call fails and no required field or option name is missing, the run
\* ends with status zero after update-fields (a missing name ends it like a
\* failed call); every run whose calls are all answered ends in exactly one
\* of the two exit states.
C8_ExactlyOnceThenExit == []C8_Safety /\ <>Exited

\* the add-item mutation failed and the run ended with status 1
C8_Witness ==
  /\ failed = {"addItem"}
  /\ Exited /\ exitCode = 1
  /\ issued = <<"metadata", "addItem">>

----------------------------------------------------------------------------
(* C9 *)

PostAddCalls == {"contributions", "isDocsTeamMember", "isGitHubOrgMember",
                 "update"}

\* C9 as stated: a failed update-fields mutation leaves the item on the
\* board with no field set, without retry or removal; and an item on the
\* board with no field set at the end of a run comes from a failed
\* update-fields mutation.
C9_Original ==
  /\ "update" \in failed =>
       /\ Exited /\ ItemOnBoard /\ FieldsUnset
       /\ Count(issued, "update") = 1 /\ Last(issued) = "update"
  /\ (Exited /\ ItemOnBoard /\ FieldsUnset) => "update" \in failed

\* C9 amended: a failed update-fields mutation ends the run with a non-zero
\* status, the item on the board and no field set, without retry or
\* removal; and an item on the board with no field set at the end of a run
\* comes from the failure of a call issued after add-item: the contribution
\* query, a membership lookup or the update-fields mutation.
C9_PartialApplication ==
  /\ "update" \in failed =>
       /\ Exited /\ exitCode = 1 /\ ItemOnBoard /\ FieldsUnset
       /\ Count(issued, "update") = 1 /\ Last(issued) = "update"
  /\ (Exited /\ ItemOnBoard /\ FieldsUnset) <=>
       (Exited /\ failed \cap PostAddCalls # {})
  /\ ~FieldsUnset => ItemOnBoard

\* the update-fields mutation failed: item on the board, fields unset
C9_Witness ==
  /\ "update" \in failed
  /\ Exited /\ ItemOnBoard /\ FieldsUnset

----------------------------------------------------------------------------
(* C10 *)

\* C10: the fifteen lookups precede the add-item mutation: when the
\* metadata fetch fails or a required name is missing no mutation has been
\* issued and the item is not on the board.
C10_NoMutationBeforeLookups ==
  /\ ("metadata" \in failed \/ MissingName) =>
       /\ issued = <<"metadata">>
       /\ ~ItemOnBoard /\ FieldsUnset
  /\ "addItem" \in Range(issued) => \A v \in IdVars : IsIdentifier(ids[v])

\* the board lacks the field Contributor: the run ended, nothing was issued
C10_Witness ==
  /\ MetadataFetched
  /\ "Contributor" \notin data.fields
  /\ Exited
  /\ issued = <<"metadata">>
  /\ ~ItemOnBoard

====
